---- MODULE Spec2Model ----
(***************************************************************************)
(* A model of src/src/ssumo/model/disentangle.py: the three dual-rate      *)
(* trackers (MovingAverageFilter, QuadraticDiscriminantFilter,             *)
(* MovingAvgLeastSquares), GradientReversal, LinearProjection and          *)
(* LinearDisentangle.                                                      *)
(*                                                                         *)
(* One object is constructed per behaviour (variable obj) and then driven  *)
(* by any sequence of calls of its methods.  Real numbers are exact        *)
(* rationals <<numerator, denominator>>; <<0, 0>> is NaN.  Forgetting      *)
(* factors, lamdiff and delta are counted in tenths (LamOne tenths = 1.0). *)
(***************************************************************************)
EXTENDS Integers, Sequences, FiniteSets, TLC

VARIABLES
    obj,      \* which class was constructed: "none" before construction,
              \* "failed" when the constructor raised
    lamdiff,  \* constructor argument lamdiff, in tenths
    delta,    \* constructor argument delta, in tenths
    calls,    \* number of method calls made on the object
    maf,      \* MovingAverageFilter buffers m1, m2, lam1, lam2
    qdf,      \* QuadraticDiscriminantFilter buffers
    mals,     \* MovingAvgLeastSquares buffers
    gr,       \* GradientReversal ctx: the tensors saved by forward
    ld,       \* LinearProjection / LinearDisentangle: decoder and reversal
    call,     \* the last call: its name and its arguments
    ret,      \* what the last call returned
    err       \* the exception the last call raised ("" when it returned)

vars == <<obj, lamdiff, delta, calls, maf, qdf, mals, gr, ld, call, ret, err>>

(***************************************************************************)
(* Bounds of the model.                                                    *)
(***************************************************************************)
MaxCalls == 2

(***************************************************************************)
(* Exact arithmetic on the values of tensors' entries.                     *)
(***************************************************************************)
NaN == <<0, 0>>

\* the element of a one-element set: Only({F(v) : v \in {e}}) is F(e) with e
\* evaluated once
Only(S) == CHOOSE r \in S : TRUE

IsNaN(a) == a[2] = 0

Abs(n) == IF n < 0 THEN -n ELSE n

RECURSIVE GCD(_, _)
GCD(a, b) == IF b = 0 THEN a ELSE GCD(b, a % b)

\* n / d in lowest terms, the denominator positive
Rat(n, d) ==
    IF d = 0 THEN NaN
    ELSE LET s == IF d < 0 THEN -1 ELSE 1
             g == GCD(Abs(n), Abs(d))
         IN  <<(s * n) \div g, (s * d) \div g>>

R(n) == <<n, 1>>

LCM(a, b) == (a \div GCD(a, b)) * b

RAdd(a, b) ==
    IF IsNaN(a) \/ IsNaN(b) THEN NaN
    ELSE LET l == LCM(a[2], b[2])
         IN  Rat(a[1] * (l \div a[2]) + b[1] * (l \div b[2]), l)

RNeg(a) == IF IsNaN(a) THEN NaN ELSE <<0 - a[1], a[2]>>

RSub(a, b) == RAdd(a, RNeg(b))

RMul(a, b) ==
    IF IsNaN(a) \/ IsNaN(b) THEN NaN
    ELSE LET g1 == GCD(Abs(a[1]), b[2])
             g2 == GCD(Abs(b[1]), a[2])
         IN  Rat((a[1] \div g1) * (b[1] \div g2), (a[2] \div g2) * (b[2] \div g1))

\* a / b as floating point divides: 0/0 and anything with NaN is NaN.  The
\* model never divides a nonzero value by zero (that would be +-inf).
RDiv(a, b) ==
    IF IsNaN(a) \/ IsNaN(b) \/ b[1] = 0 THEN NaN
    ELSE RMul(a, Rat(b[2], b[1]))

\* a < b; every comparison with NaN is false
RLt(a, b) ==
    /\ ~IsNaN(a)
    /\ ~IsNaN(b)
    /\ LET l == LCM(a[2], b[2])
       IN  a[1] * (l \div a[2]) < b[1] * (l \div b[2])

RSq(a) == RMul(a, a)

RECURSIVE RSum(_)
RSum(s) == IF s = <<>> THEN R(0) ELSE RAdd(Head(s), RSum(Tail(s)))

(***************************************************************************)
(* Forgetting factors.                                                     *)
(***************************************************************************)
LamOne == 10

\* a forgetting factor (in tenths) as a tensor value
Lam(l) == Rat(l, LamOne)

\* np.clip(v, 0.0, 1.0) / torch.clamp(v, 0.0, 1.0)
Clip(v, lo, hi) == IF v < lo THEN lo ELSE IF v > hi THEN hi ELSE v

\* the (lamdiff, delta) pairs the trackers are constructed with
Params == {<<1, 1>>, <<2, 5>>}

\* the `classes` list the per-class trackers are constructed with
Classes == <<0, 1>>

ClassIdx == DOMAIN Classes

(***************************************************************************)
(* MovingAverageFilter                                                     *)
(***************************************************************************)
MAF_LAM_INIT == 5

\* rows of x: the feature vectors a minibatch row can hold
MAF_XVals == {<<0, 0>>, <<1, 0>>, <<1, 1>>}

\* nx = x.shape[1]
MAF_NX == Len(CHOOSE v \in MAF_XVals : TRUE)

MAF_Dims == 1 .. MAF_NX

MAF_Sample == [x : MAF_XVals, y : {Classes[i] : i \in ClassIdx}]

\* minibatches (x, y): two rows
MAF_Batches == [1 .. 2 -> MAF_Sample]

\* the state no MovingAverageFilter was constructed in
MAF_None == [m1 |-> <<>>, m2 |-> <<>>, lam1 |-> <<>>, lam2 |-> <<>>]

MAF_init(ld_, dl_) ==
    [m1   |-> [i \in ClassIdx |-> [j \in MAF_Dims |-> R(0)]],
     m2   |-> [i \in ClassIdx |-> [j \in MAF_Dims |-> R(0)]],
     lam1 |-> [i \in ClassIdx |-> MAF_LAM_INIT],
     lam2 |-> [i \in ClassIdx |-> MAF_LAM_INIT + ld_]]

\* the rows of batch b with label `label`
RowsOf(b, label) == {k \in DOMAIN b : b[k].y = label}

RECURSIVE SumOver(_, _, _)
\* the sum of f[k] over k in S, f a function to integers
SumOver(f, S, acc) ==
    IF S = {} THEN acc
    ELSE LET k == CHOOSE k \in S : TRUE
         IN  SumOver(f, S \ {k}, acc + f[k])

\* torch.mean(x[y==label], axis=0): NaN in every column when no row matches
MAF_xbar(b, label) ==
    LET rows == RowsOf(b, label)
    IN  [j \in MAF_Dims |->
            RDiv(R(SumOver([k \in DOMAIN b |-> b[k].x[j]], rows, 0)),
                 R(Cardinality(rows)))]

\* the square of torch.linalg.norm(u - v)
DistSq(u, v) == RSum([j \in DOMAIN u |-> RSq(RSub(u[j], v[j]))])

\* d1 <= d2
MAF_fast_wins_or_ties(st, i, xbar) ==
    /\ ~IsNaN(DistSq(xbar, st.m1[i]))
    /\ ~IsNaN(DistSq(xbar, st.m2[i]))
    /\ ~RLt(DistSq(xbar, st.m2[i]), DistSq(xbar, st.m1[i]))

\* d1 < d2: norms are compared through their squares
MAF_fast_wins(st, i, xbar) ==
    RLt(DistSq(xbar, st.m1[i]), DistSq(xbar, st.m2[i]))

\* (1 - lam) * xbar + lam * m
MAF_blend(l, xbar, m) ==
    [j \in DOMAIN m |->
        RAdd(RMul(RSub(R(1), Lam(l)), xbar[j]), RMul(Lam(l), m[j]))]

\* line 57 run before line 56: lam1[i] from the old lam2[i]
MAF_adapt_lam1_stale(st, i, xbar) ==
    IF MAF_fast_wins(st, i, xbar)
    THEN Clip(st.lam1[i] - delta, 0, LamOne)
    ELSE st.lam2[i] - lamdiff

\* lines 52-57: the new lam1[i]
MAF_adapt_lam1(st, i, xbar) ==
    IF MAF_fast_wins(st, i, xbar)
    THEN Clip(st.lam1[i] - delta, 0, LamOne)
    ELSE Clip(st.lam2[i] + delta, 0, LamOne) - lamdiff

\* lines 52-57: the new lam2[i]
MAF_adapt_lam2(st, i, xbar) ==
    IF MAF_fast_wins(st, i, xbar)
    THEN Clip(st.lam1[i] - delta, 0, LamOne) + lamdiff
    ELSE Clip(st.lam2[i] + delta, 0, LamOne)

\* one pass of the loop body of evaluate_loss for class index i
MAF_class(st, i, b) ==
    Only({Only({
        [m1   |-> [st.m1 EXCEPT ![i] = MAF_blend(l1, xbar, st.m1[i])],
         m2   |-> [st.m2 EXCEPT ![i] = MAF_blend(l2, xbar, st.m2[i])],
         lam1 |-> [st.lam1 EXCEPT ![i] = l1],
         lam2 |-> [st.lam2 EXCEPT ![i] = l2]]
        : l1 \in {MAF_adapt_lam1(st, i, xbar)}, l2 \in {MAF_adapt_lam2(st, i, xbar)}})
        : xbar \in {MAF_xbar(b, Classes[i])}})

RECURSIVE MAF_loop(_, _, _)
\* for i, label in enumerate(self.classes)
MAF_loop(st, i, b) ==
    IF i > Len(Classes) THEN st
    ELSE Only({MAF_loop(s, i + 1, b) : s \in {MAF_class(st, i, b)}})

\* mean_estimate = 0.5 * (self.m1 + self.m2)
MAF_mean_estimate(st) ==
    [i \in ClassIdx |-> [j \in MAF_Dims |->
        RMul(Rat(1, 2), RAdd(st.m1[i][j], st.m2[i][j]))]]

\* lines 64-67: d[c, k] = mean_estimate[c, k+1] - mean_estimate[c, k], the
\* offset-1 diagonal of the (feature x feature) difference matrix of each
\* class; the result is the square of torch.linalg.norm(d)
MAF_loss_sq(st) ==
    Only({RSum([n \in 1 .. (Len(Classes) * (MAF_NX - 1)) |->
            LET c == ((n - 1) \div (MAF_NX - 1)) + 1
                k == ((n - 1) % (MAF_NX - 1)) + 1
            IN  RSq(RSub(me[c][k + 1], me[c][k]))])
        : me \in {MAF_mean_estimate(st)}})

(***************************************************************************)
(* Log-likelihood values.  [p |-> P, r |-> R] stands for the real number   *)
(* -0.5 * (ln P + R), P and R rationals with P > 0: sums and differences   *)
(* of Gaussian log-likelihoods stay in this form.  ln P is irrational for  *)
(* every rational P other than 1, so two such values are equal exactly     *)
(* when their P and their R are equal.                                     *)
(***************************************************************************)
LLNaN == [p |-> NaN, r |-> NaN]

LLZero == [p |-> R(1), r |-> R(0)]

LLIsNaN(a) == IsNaN(a.p) \/ IsNaN(a.r)

LL(p, r) == IF IsNaN(p) \/ IsNaN(r) THEN LLNaN ELSE [p |-> p, r |-> r]

LLAdd(a, b) == LL(RMul(a.p, b.p), RAdd(a.r, b.r))

LLNeg(a) == LL(RDiv(R(1), a.p), RNeg(a.r))

LLSub(a, b) == LLAdd(a, LLNeg(b))

\* mask * a for a 0/1 mask: 0 * NaN is NaN
LLMask(mask, a) == IF LLIsNaN(a) THEN LLNaN ELSE IF mask THEN a ELSE LLZero

RECURSIVE LLSum(_)
LLSum(s) == IF s = <<>> THEN LLZero ELSE LLAdd(Head(s), LLSum(Tail(s)))

\* ln q < d for rationals q > 0 and d, where arithmetic decides it:
\* "yes", "no", or "open" when neither 1 - 1/q <= ln q <= q - 1 settles it
LnLess(q, d) ==
    IF q = R(1) THEN (IF RLt(R(0), d) THEN "yes" ELSE "no")
    ELSE IF RLt(RSub(q, R(1)), d) THEN "yes"
    ELSE IF ~RLt(RSub(R(1), RDiv(R(1), q)), d) THEN "no"
    ELSE "open"

\* a > b for log-likelihood values: -0.5 (ln a.p + a.r) > -0.5 (ln b.p + b.r),
\* that is ln (a.p / b.p) < b.r - a.r; every comparison with NaN is false
LLGreater(a, b) ==
    IF LLIsNaN(a) \/ LLIsNaN(b) THEN "no"
    ELSE LnLess(RDiv(a.p, b.p), RSub(b.r, a.r))

(***************************************************************************)
(* QuadraticDiscriminantFilter, with nx = 1: means and covariances are     *)
(* 1 x 1.                                                                  *)
(***************************************************************************)
QDF_LAM_INIT == 2

\* lamdiff and delta given to QuadraticDiscriminantFilter, in tenths
QDF_Params == Params \cup {<<1, 9>>}

QDF_Copies == {"a", "b"}

QDF_Pars == {"m0", "m1", "S0", "S1"}

QDF_XVals == {0, 2}

QDF_Sample == [x : QDF_XVals, y : {Classes[i] : i \in ClassIdx}]

\* three rows: two rows of one class with different x, one row of the other
\* class, so that both classes have rows and one has a nonzero covariance
QDF_SpreadBatches ==
    {<<[x |-> 0, y |-> Classes[i]], [x |-> 2, y |-> Classes[i]],
       [x |-> v, y |-> Classes[j]]>> :
        i \in ClassIdx, j \in ClassIdx, v \in QDF_XVals} \
    {b \in [1 .. 3 -> QDF_Sample] : b[1].y = b[3].y}

\* minibatches given to update: two rows, or three with a spread
QDF_Batches == [1 .. 2 -> QDF_Sample] \cup QDF_SpreadBatches

\* minibatches given to evaluate_loss: one row
QDF_EvalBatches == [1 .. 1 -> QDF_Sample]

\* the in-class covariance of the first class seeded with 2 * eye
QDF_init_uneven(ld_, dl_) ==
    [acc |-> [i \in ClassIdx |-> [cl \in QDF_Copies |-> [par \in QDF_Pars |->
                IF par \in {"m0", "m1"} THEN R(0)
                ELSE IF par = "S1" /\ i = 1 THEN R(2) ELSE R(1)]]],
     lam |-> [i \in ClassIdx |-> [cl \in QDF_Copies |->
                IF cl = "a" THEN QDF_LAM_INIT ELSE QDF_LAM_INIT + ld_]]]

\* lines 97-115: buffer "<par><cl>_<label>" is acc[i][cl][par], "lam<cl>_<label>"
\* is lam[i][cl]
QDF_init(ld_, dl_) ==
    [acc |-> [i \in ClassIdx |-> [cl \in QDF_Copies |-> [par \in QDF_Pars |->
                IF par \in {"m0", "m1"} THEN R(0) ELSE R(1)]]],
     lam |-> [i \in ClassIdx |-> [cl \in QDF_Copies |->
                IF cl = "a" THEN QDF_LAM_INIT ELSE QDF_LAM_INIT + ld_]]]

\* torch.mean(x[rows], axis=0, keepdim=True)
QDF_mean(b, rows) ==
    RDiv(R(SumOver([k \in DOMAIN b |-> b[k].x], rows, 0)), R(Cardinality(rows)))

\* torch.cov(x[rows].T, correction=0): the mean squared deviation
QDF_cov(b, rows) ==
    RSub(RDiv(R(SumOver([k \in DOMAIN b |-> b[k].x * b[k].x], rows, 0)),
              R(Cardinality(rows))),
         RSq(QDF_mean(b, rows)))

\* lines 134-143
QDF_empirical(b, label) ==
    LET i0 == {k \in DOMAIN b : b[k].y # label}
        i1 == {k \in DOMAIN b : b[k].y = label}
    IN  [par \in QDF_Pars |->
            CASE par = "m0" -> QDF_mean(b, i0)
              [] par = "m1" -> QDF_mean(b, i1)
              [] par = "S0" -> QDF_cov(b, i0)
              [] par = "S1" -> QDF_cov(b, i1)]

\* lam used as the weight of the running value
QDF_blend_persistence(l, cur, emp) ==
    RAdd(RMul(RSub(R(1), Lam(l)), emp), RMul(Lam(l), cur))

\* lines 149-159: forgetting + updating = (1 - lam) * current + lam * empirical
QDF_blend(l, cur, emp) ==
    RAdd(RMul(RSub(R(1), Lam(l)), cur), RMul(Lam(l), emp))

\* the loop body that also takes a fast-branch step of the forgetting factors
QDF_update_class_adapting(st, i, b) ==
    Only({[st EXCEPT !.acc[i] = [cl \in QDF_Copies |-> [par \in QDF_Pars |->
                        QDF_blend(st.lam[i][cl], st.acc[i][cl][par], emp[par])]],
                     !.lam[i] = [cl \in QDF_Copies |->
                        IF cl = "a" THEN Clip(st.lam[i]["a"] - delta, 0, LamOne)
                        ELSE Clip(st.lam[i]["a"] - delta, 0, LamOne) + lamdiff]]
        : emp \in {QDF_empirical(b, Classes[i])}})

\* QuadraticDiscriminantFilter.update, the loop body for class index i
QDF_update_class(st, i, b) ==
    Only({[st EXCEPT !.acc[i] = [cl \in QDF_Copies |-> [par \in QDF_Pars |->
            QDF_blend(st.lam[i][cl], st.acc[i][cl][par], emp[par])]]]
        : emp \in {QDF_empirical(b, Classes[i])}})

RECURSIVE QDF_update_loop(_, _, _)
QDF_update_loop(st, i, b) ==
    IF i > Len(Classes) THEN st
    ELSE Only({QDF_update_loop(s, i + 1, b) : s \in {QDF_update_class(st, i, b)}})

\* cgll(x, m, S) for one row x: -0.5 * (logdet(S) + (x - m) S^-1 (x - m));
\* torch.logdet of a negative determinant is NaN
QDF_cgll(x, m, S) ==
    IF IsNaN(m) \/ IsNaN(S) \/ RLt(S, R(0)) THEN LLNaN
    ELSE LL(S, RDiv(RSq(RSub(R(x), m)), S))

\* torch.linalg.solve(S, .) raises on a singular S
QDF_singular(st, i) ==
    \E cl \in QDF_Copies : \E par \in {"S0", "S1"} : st.acc[i][cl][par] = R(0)

\* lines 186-196 / 199-209: torch.sum(i0 * ll0 + i1 * ll1) of copy cl
QDF_ll(st, i, cl, b) ==
    LLSum([k \in DOMAIN b |->
        LLAdd(LLMask(b[k].y # Classes[i],
                     QDF_cgll(b[k].x, st.acc[i][cl]["m0"], st.acc[i][cl]["S0"])),
              LLMask(b[k].y = Classes[i],
                     QDF_cgll(b[k].x, st.acc[i][cl]["m1"], st.acc[i][cl]["S1"])))])

\* (ll1 - ll0) summed over the rows without the sign batch_y
QDF_llr_unsigned(st, i, cl, b) ==
    LLSum([k \in DOMAIN b |->
        LLSub(QDF_cgll(b[k].x, st.acc[i][cl]["m1"], st.acc[i][cl]["S1"]),
              QDF_cgll(b[k].x, st.acc[i][cl]["m0"], st.acc[i][cl]["S0"]))])

\* lines 244-246: batch_y @ (ll1 - ll0) of copy cl
QDF_llr(st, i, cl, b) ==
    LLSum([k \in DOMAIN b |->
        LET d == LLSub(QDF_cgll(b[k].x, st.acc[i][cl]["m1"], st.acc[i][cl]["S1"]),
                       QDF_cgll(b[k].x, st.acc[i][cl]["m0"], st.acc[i][cl]["S0"]))
        IN  IF b[k].y = Classes[i] THEN d ELSE LLNeg(d)])

\* lla > llb; `tie` stands in where the model's arithmetic leaves it open
QDF_a_wins(st, i, b, tie) ==
    Only({IF c = "open" THEN tie ELSE c = "yes"
        : c \in {LLGreater(QDF_ll(st, i, "a", b), QDF_ll(st, i, "b", b))}})

\* the step without torch.clamp
QDF_adapt_lama_no_clamp(st, i, b, tie) ==
    IF QDF_a_wins(st, i, b, tie)
    THEN st.lam[i]["a"] - delta
    ELSE Clip(st.lam[i]["b"] + delta, 0, LamOne) - lamdiff

\* lines 213-241: the new lama_<label> of a live step
QDF_adapt_lama(st, i, b, tie) ==
    IF QDF_a_wins(st, i, b, tie)
    THEN Clip(st.lam[i]["a"] - delta, 0, LamOne)
    ELSE Clip(st.lam[i]["b"] + delta, 0, LamOne) - lamdiff

\* lines 213-241: the new lamb_<label> of a live step
QDF_adapt_lamb(st, i, b, tie) ==
    IF QDF_a_wins(st, i, b, tie)
    THEN Clip(st.lam[i]["a"] - delta, 0, LamOne) + lamdiff
    ELSE Clip(st.lam[i]["b"] + delta, 0, LamOne)

\* the step taken whatever `update` says
QDF_eval_class_always(st, i, b, update, tie) ==
    [st EXCEPT !.lam[i] = [cl \in QDF_Copies |->
        IF cl = "a" THEN QDF_adapt_lama(st, i, b, tie)
                    ELSE QDF_adapt_lamb(st, i, b, tie)]]

\* the loop body of evaluate_loss for class index i
QDF_eval_class(st, i, b, update, tie) ==
    IF update
    THEN [st EXCEPT !.lam[i] = [cl \in QDF_Copies |->
            IF cl = "a" THEN QDF_adapt_lama(st, i, b, tie)
                        ELSE QDF_adapt_lamb(st, i, b, tie)]]
    ELSE st

RECURSIVE QDF_eval_loop(_, _, _, _, _)
\* for label in self.classes; a raise leaves the earlier classes' steps done
QDF_eval_loop(st, i, b, update, tie) ==
    IF i > Len(Classes) THEN [st |-> st, err |-> ""]
    ELSE IF QDF_singular(st, i) THEN [st |-> st, err |-> "LinAlgError"]
    ELSE Only({QDF_eval_loop(s, i + 1, b, update, tie)
                : s \in {QDF_eval_class(st, i, b, update, tie[i])}})

\* line 248 summed over the classes, without the factor 0.5: llra + llrb
QDF_ll_sum(st, b) ==
    LLSum([i \in ClassIdx |->
        LLAdd(QDF_llr(st, i, "a", b), QDF_llr(st, i, "b", b))])

\* lines 248-250: ll_loss / len(self.classes), the real number
\* scale * (the log-likelihood value `of`)
QDF_loss(st, b) ==
    [scale |-> RDiv(Rat(1, 2), R(Len(Classes))), of |-> QDF_ll_sum(st, b)]

(***************************************************************************)
(* MovingAvgLeastSquares, with ny = 1.  The constructor and                *)
(* polynomial_expansion are modelled for every configuration of            *)
(* MALS_Configs.  The record holds the accumulators entry by entry for     *)
(* nx = 1, polynomial_order = 1, bias = False, where Sxx and Sxy are       *)
(* 1 x 1, and update, forward and evaluate_loss are called in that         *)
(* configuration; in the other configurations Sxx stands for the diagonal  *)
(* entry of torch.eye and Sxy for the entry of torch.zeros.                *)
(***************************************************************************)
MALS_LAM_INIT == 9

\* largest polynomial_order given to the constructor
MaxOrder == 3

MALS_NXs == {1, 2}

MALS_Orders == (0 - 1) .. MaxOrder

\* constructor arguments nx, polynomial_order, bias
MALS_Configs == [nx : MALS_NXs, order : MALS_Orders, bias : BOOLEAN]

\* lamdiff and delta given to MovingAvgLeastSquares, in tenths
MALS_Params == Params \cup {<<1, 9>>}

RECURSIVE ProdRange(_, _)
\* torch.prod(torch.arange(lo, hi)): the product of lo .. hi - 1
ProdRange(lo, hi) == IF lo >= hi THEN 1 ELSE lo * ProdRange(lo + 1, hi)

RECURSIVE MALS_nx_poly(_, _)
\* lines 261-265: the sum over i in range(1, polynomial_order + 1) of
\* prod(arange(nx, nx + i)) / prod(arange(i) + 1); every quotient is whole
MALS_nx_poly(nx, order) ==
    IF order < 1 THEN 0
    ELSE MALS_nx_poly(nx, order - 1)
            + (ProdRange(nx, nx + order) \div ProdRange(1, order + 1))

\* line 267: nx = int(nx_poly) + self.bias, the size of Sxx
MALS_dim(c) == MALS_nx_poly(c.nx, c.order) + (IF c.bias THEN 1 ELSE 0)

RECURSIVE Combinations(_, _, _)
RECURSIVE CombinationsFrom(_, _, _)
\* torch.combinations(idx, d, with_replacement=True) restricted to the
\* indices lo .. n: the non-decreasing index tuples of length d, in
\* lexicographic order
Combinations(n, d, lo) ==
    IF d = 0 THEN << <<>> >> ELSE CombinationsFrom(n, d, lo)

\* the tuples of Combinations(n, d, lo) whose first index is at least i
CombinationsFrom(n, d, i) ==
    IF i > n THEN <<>>
    ELSE LET rest == Combinations(n, d - 1, i)
         IN  [k \in 1 .. Len(rest) |-> <<i>> \o rest[k]]
                \o CombinationsFrom(n, d, i + 1)

RECURSIVE ProdAt(_, _)
\* x[:, C_idx].prod(dim=-1) for one row x and one index tuple t
ProdAt(x, t) == IF t = <<>> THEN 1 ELSE x[Head(t)] * ProdAt(x, Tail(t))

RECURSIVE MALS_x_list_inclusive(_, _, _)
\* the loop run for i in range(from, polynomial_order + 1)
MALS_x_list_inclusive(x, from, order) ==
    IF from > order THEN <<>>
    ELSE LET C_idx == Combinations(Len(x), from + 1, 1)
         IN  [k \in 1 .. Len(C_idx) |-> ProdAt(x, C_idx[k])]
                \o MALS_x_list_inclusive(x, from + 1, order)

RECURSIVE MALS_x_list(_, _, _)
\* lines 308-310: the columns appended for i in range(from, polynomial_order)
MALS_x_list(x, from, order) ==
    IF from >= order THEN <<>>
    ELSE LET C_idx == Combinations(Len(x), from + 1, 1)
         IN  [k \in 1 .. Len(C_idx) |-> ProdAt(x, C_idx[k])]
                \o MALS_x_list(x, from + 1, order)

\* MovingAvgLeastSquares.polynomial_expansion for one row x
MALS_polynomial_expansion(x, order) == x \o MALS_x_list(x, 1, order)

\* entries of the rows given to polynomial_expansion
MALS_RowVals == {1, 2, 3}

\* the configuration whose accumulators the record holds entry by entry
MALS_scalar(st) == st.nx = 1 /\ st.order = 1 /\ ~st.bias

MALS_XVals == {0, 1, 2}

MALS_YVals == {0, 2}

\* minibatches given to update: one row (x, y)
MALS_Batches == [x : MALS_XVals, y : MALS_YVals]

\* lines 270-281
MALS_init(c, ld_, dl_) ==
    [nx |-> c.nx, order |-> c.order, bias |-> c.bias, dim |-> MALS_dim(c),
     Sxx0 |-> R(1), Sxy0 |-> R(0), Sxx1 |-> R(1), Sxy1 |-> R(0),
     lam0 |-> MALS_LAM_INIT, lam1 |-> MALS_LAM_INIT + ld_]

\* the batch term scaled by 1 - lam
MALS_decay_normalised(l, S, s) ==
    RAdd(RMul(Lam(l), S), RMul(RSub(R(1), Lam(l)), s))

\* lines 342-345: lam * S + s
MALS_decay(l, S, s) == RAdd(RMul(Lam(l), S), s)

\* Sxy left without the batch term
MALS_update_state_stale_cross(st, b) ==
    LET xx == R(b.x * b.x)
    IN  [st EXCEPT !.Sxx0 = MALS_decay(st.lam0, st.Sxx0, xx),
                   !.Sxy0 = RMul(Lam(st.lam0), st.Sxy0),
                   !.Sxx1 = MALS_decay(st.lam1, st.Sxx1, xx),
                   !.Sxy1 = RMul(Lam(st.lam1), st.Sxy1)]

\* lines 326-327: torch.linalg.solve(Sxx, Sxy) for 1 x 1 matrices
MALS_solve(Sxx, Sxy) == RDiv(Sxy, Sxx)

\* MovingAvgLeastSquares.update(x, y)
MALS_update_state(st, b) ==
    LET xx == R(b.x * b.x)
        xy == R(b.x * b.y)
    IN  [st EXCEPT !.Sxx0 = MALS_decay(st.lam0, st.Sxx0, xx),
                   !.Sxy0 = MALS_decay(st.lam0, st.Sxy0, xy),
                   !.Sxx1 = MALS_decay(st.lam1, st.Sxx1, xx),
                   !.Sxy1 = MALS_decay(st.lam1, st.Sxy1, xy)]

\* mse_loss(y, yhat, reduction="sum") of one row
MALS_sse(y, yhat) == RSq(RSub(R(y), R(yhat)))

\* l0 < l1
MALS_fast_wins(a) == RLt(MALS_sse(a.y, a.yhat0), MALS_sse(a.y, a.yhat1))

\* lines 370-378: the new lam0
MALS_adapt_lam0(st, a) ==
    IF MALS_fast_wins(a)
    THEN Clip(st.lam0 - delta, 0, LamOne)
    ELSE Clip(st.lam1 + delta, 0, LamOne) - lamdiff

\* lines 370-378: the new lam1
MALS_adapt_lam1(st, a) ==
    IF MALS_fast_wins(a)
    THEN Clip(st.lam0 - delta, 0, LamOne) + lamdiff
    ELSE Clip(st.lam1 + delta, 0, LamOne)

\* the arguments (yhat0, yhat1, y) of evaluate_loss: one row each
MALS_EvalArgs == [yhat0 : MALS_XVals, yhat1 : MALS_XVals, y : MALS_YVals]

(***************************************************************************)
(* GradientReversal                                                        *)
(***************************************************************************)
MaxVal == 1

GR_Vals == (0 - MaxVal) .. MaxVal

GR_Alphas == {0, 1, 2}

NoGrad == [none |-> TRUE, val |-> 0]

Grad(v) == [none |-> FALSE, val |-> v]

\* GradientReversal.forward(ctx, x, alpha): the value returned
GR_forward_value(x, alpha) == x

\* the sign flipped, alpha dropped
GR_backward_input_unscaled(ctx, g) ==
    IF ctx.needs[1] THEN Grad(0 - g) ELSE NoGrad

\* GradientReversal.backward: grad_input
GR_backward_input(ctx, g) ==
    IF ctx.needs[1] THEN Grad((0 - ctx.alpha) * g) ELSE NoGrad

(***************************************************************************)
(* LinearProjection and LinearDisentangle, with in_dim = 2 and             *)
(* out_dim = 1: the decoder weight is one row w, w @ w.T is 1 x 1.         *)
(***************************************************************************)
LD_WVals == {<<1, 0>>, <<1, 1>>, <<1, 2>>}

LD_BVals == {0, 1}

LD_ZVals == {<<0, 0>>, <<1, 0>>, <<1, 2>>}

\* input batches z: one row or two rows
LD_ZBatches == [1 .. 1 -> LD_ZVals] \cup [1 .. 2 -> LD_ZVals]

LD_ReversalArgs == {"mlp", "linear", "ensemble", "lienar"}

\* n_models: 0 stands for both None and 0
LD_NModels == {0, 2}

Dot(u, v) == SumOver([j \in DOMAIN u |-> u[j] * v[j]], DOMAIN u, 0)

\* an unknown name falling back to the default branch
LD_reversal_default_linear(reversal, n_models) ==
    CASE reversal = "mlp" -> "mlp"
      [] reversal = "ensemble" ->
            IF n_models = 0 THEN "ReversalEnsemble" ELSE "MLPEnsemble"
      [] OTHER -> "linear"

\* lines 526-549: what self.reversal is made of
LD_reversal(reversal, n_models) ==
    CASE reversal = "mlp" -> "mlp"
      [] reversal = "linear" -> "linear"
      [] reversal = "ensemble" ->
            IF n_models = 0 THEN "ReversalEnsemble" ELSE "MLPEnsemble"
      [] OTHER -> "None"

\* self.decoder(z) for one row: w . z + bias
LD_decode(d, z) == R(Dot(d.w, z) + d.b)

\* lines 552-556: z - torch.linalg.solve(nrm, x.T).T @ w for one row
LD_null_row(d, z) ==
    LET nrm == R(Dot(d.w, d.w))
        y   == RDiv(LD_decode(d, z), nrm)
    IN  [j \in DOMAIN z |-> RSub(R(z[j]), RMul(y, R(d.w[j])))]

\* nn.Sequential calls each of its modules: ReversalEnsemble's Sequentials end
\* with None (bound=False), which is not callable
LD_forward_err(d) == IF d.reversal = "ReversalEnsemble" THEN "TypeError" ELSE ""

\* the dictionary data_o
LD_forward_out(d, zb) ==
    [v      |-> [k \in DOMAIN zb |-> LD_decode(d, zb[k])],
     z_null |-> [k \in DOMAIN zb |-> LD_null_row(d, zb[k])],
     gr     |-> d.reversal # "None"]

NoCall == [op |-> "none"]

Init ==
    /\ obj = "none"
    /\ lamdiff = 0
    /\ delta = 0
    /\ calls = 0
    /\ maf = MAF_None
    /\ qdf = <<>>
    /\ mals = <<>>
    /\ gr = <<>>
    /\ ld = <<>>
    /\ call = NoCall
    /\ ret = <<>>
    /\ err = ""

\* MovingAverageFilter.__init__(self, nx, classes, lamdiff, delta).  The body
\* never calls super().__init__(), and nn.Module.register_buffer raises
\* AttributeError on an instance nn.Module.__init__ has not prepared.
\* module_ready says whether the instance was prepared before the body runs:
\* FALSE for the plain call MovingAverageFilter(...), TRUE only when a caller
\* or a subclass has run nn.Module.__init__ on the instance itself.
MAF_new ==
    /\ obj = "none"
    /\ \E p \in Params, module_ready \in BOOLEAN :
        /\ lamdiff' = p[1]
        /\ delta' = p[2]
        /\ call' = [op |-> "MAF.__init__", module_ready |-> module_ready]
        /\ IF module_ready
           THEN maf' = MAF_init(p[1], p[2]) /\ obj' = "MAF" /\ err' = ""
           ELSE maf' = maf /\ obj' = "failed" /\ err' = "AttributeError"
    /\ UNCHANGED <<calls, qdf, mals, gr, ld, ret>>

\* MovingAverageFilter.evaluate_loss(x, y)
MAF_evaluate_loss ==
    /\ obj = "MAF"
    /\ calls < MaxCalls
    /\ \E b \in MAF_Batches :
        /\ maf' = MAF_loop(maf, 1, b)
        /\ call' = [op |-> "MAF.evaluate_loss", batch |-> b]
    /\ ret' = MAF_loss_sq(maf')
    /\ err' = ""
    /\ calls' = calls + 1
    /\ UNCHANGED <<obj, lamdiff, delta, qdf, mals, gr, ld>>

\* MovingAverageFilter.update(**kwargs): detach() keeps the values
MAF_update ==
    /\ obj = "MAF"
    /\ calls < MaxCalls
    /\ maf' = [maf EXCEPT !.m1 = maf.m1, !.m2 = maf.m2]
    /\ call' = [op |-> "MAF.update"]
    /\ ret' = <<>>
    /\ err' = ""
    /\ calls' = calls + 1
    /\ UNCHANGED <<obj, lamdiff, delta, qdf, mals, gr, ld>>

\* QuadraticDiscriminantFilter(nx, classes, lamdiff, delta)
QDF_new ==
    /\ obj = "none"
    /\ \E p \in QDF_Params :
        /\ lamdiff' = p[1]
        /\ delta' = p[2]
        /\ qdf' = QDF_init(p[1], p[2])
    /\ obj' = "QDF"
    /\ call' = [op |-> "QDF.__init__"]
    /\ UNCHANGED <<calls, maf, mals, gr, ld, ret, err>>

\* QuadraticDiscriminantFilter.update(x, y)
QDF_update ==
    /\ obj = "QDF"
    /\ calls < MaxCalls
    /\ \E b \in QDF_Batches :
        /\ qdf' = QDF_update_loop(qdf, 1, b)
        /\ call' = [op |-> "QDF.update", batch |-> b]
    /\ ret' = <<>>
    /\ err' = ""
    /\ calls' = calls + 1
    /\ UNCHANGED <<obj, lamdiff, delta, maf, mals, gr, ld>>

\* QuadraticDiscriminantFilter.evaluate_loss(x, y, update)
QDF_evaluate_loss ==
    /\ obj = "QDF"
    /\ calls < MaxCalls
    /\ \E b \in QDF_EvalBatches, update \in BOOLEAN, tie \in [ClassIdx -> BOOLEAN] :
        /\ \A i \in ClassIdx :
              (~update \/ LLGreater(QDF_ll(qdf, i, "a", b), QDF_ll(qdf, i, "b", b)) # "open")
                  => ~tie[i]
        /\ \E out \in {QDF_eval_loop(qdf, 1, b, update, tie)} :
               /\ qdf' = out.st
               /\ err' = out.err
               /\ ret' = IF out.err = "" THEN QDF_loss(qdf, b) ELSE <<>>
        /\ call' = [op |-> "QDF.evaluate_loss", batch |-> b, update |-> update,
                    tie |-> tie]
    /\ calls' = calls + 1
    /\ UNCHANGED <<obj, lamdiff, delta, maf, mals, gr, ld>>

\* MovingAvgLeastSquares(nx, ny, lamdiff, delta)
MALS_new ==
    /\ obj = "none"
    /\ \E p \in MALS_Params, c \in MALS_Configs :
        /\ lamdiff' = p[1]
        /\ delta' = p[2]
        /\ mals' = MALS_init(c, p[1], p[2])
        /\ call' = [op |-> "MALS.__init__", config |-> c]
    /\ obj' = "MALS"
    /\ err' = ""
    /\ UNCHANGED <<calls, maf, qdf, gr, ld, ret>>

\* MovingAvgLeastSquares.polynomial_expansion(x), x one row of nx entries
MALS_expand ==
    /\ obj = "MALS"
    /\ calls < MaxCalls
    /\ \E x \in [1 .. mals.nx -> MALS_RowVals] :
        /\ call' = [op |-> "MALS.polynomial_expansion", x |-> x]
        /\ ret' = MALS_polynomial_expansion(x, mals.order)
    /\ err' = ""
    /\ calls' = calls + 1
    /\ UNCHANGED <<obj, lamdiff, delta, maf, qdf, mals, gr, ld>>

\* MovingAvgLeastSquares.forward(x): raises when Sxx0 or Sxx1 is singular
MALS_forward ==
    /\ obj = "MALS"
    /\ MALS_scalar(mals)
    /\ calls < MaxCalls
    /\ \E x \in MALS_XVals :
        /\ call' = [op |-> "MALS.forward", x |-> x]
        /\ IF mals.Sxx0 = R(0) \/ mals.Sxx1 = R(0)
           THEN err' = "LinAlgError" /\ ret' = <<>>
           ELSE /\ err' = ""
                /\ ret' = <<RMul(R(x), MALS_solve(mals.Sxx0, mals.Sxy0)),
                            RMul(R(x), MALS_solve(mals.Sxx1, mals.Sxy1))>>
    /\ calls' = calls + 1
    /\ UNCHANGED <<obj, lamdiff, delta, maf, qdf, mals, gr, ld>>

\* MovingAvgLeastSquares.update(x, y)
MALS_update ==
    /\ obj = "MALS"
    /\ MALS_scalar(mals)
    /\ calls < MaxCalls
    /\ \E b \in MALS_Batches :
        /\ mals' = MALS_update_state(mals, b)
        /\ call' = [op |-> "MALS.update", batch |-> b]
    /\ ret' = <<>>
    /\ err' = ""
    /\ calls' = calls + 1
    /\ UNCHANGED <<obj, lamdiff, delta, maf, qdf, gr, ld>>

\* MovingAvgLeastSquares.evaluate_loss(yhat0, yhat1, y)
MALS_evaluate_loss ==
    /\ obj = "MALS"
    /\ MALS_scalar(mals)
    /\ calls < MaxCalls
    /\ \E a \in MALS_EvalArgs :
        /\ mals' = [mals EXCEPT !.lam0 = MALS_adapt_lam0(mals, a),
                                !.lam1 = MALS_adapt_lam1(mals, a)]
        /\ call' = [op |-> "MALS.evaluate_loss", args |-> a]
        /\ ret' = RMul(RAdd(MALS_sse(a.y, a.yhat0), MALS_sse(a.y, a.yhat1)),
                       Rat(1, 2))
    /\ err' = ""
    /\ calls' = calls + 1
    /\ UNCHANGED <<obj, lamdiff, delta, maf, qdf, gr, ld>>

\* revgrad(x, alpha): GradientReversal.forward; needs[1], needs[2] say whether
\* x and alpha require a gradient (ctx.needs_input_grad)
GR_forward ==
    /\ obj = "none"
    /\ \E x \in GR_Vals, alpha \in GR_Alphas, needs \in BOOLEAN \X BOOLEAN :
        /\ gr' = [x |-> x, alpha |-> alpha, needs |-> needs]
        /\ ret' = GR_forward_value(x, alpha)
        /\ call' = [op |-> "GR.forward", x |-> x, alpha |-> alpha]
    /\ obj' = "GR"
    /\ UNCHANGED <<lamdiff, delta, calls, maf, qdf, mals, ld, err>>

\* GradientReversal.backward(ctx, grad_output): autograd runs it when some
\* input requires a gradient
GR_backward ==
    /\ obj = "GR"
    /\ calls < MaxCalls
    /\ gr.needs[1] \/ gr.needs[2]
    /\ \E g \in GR_Vals :
        /\ ret' = <<GR_backward_input(gr, g), NoGrad>>
        /\ call' = [op |-> "GR.backward", grad_output |-> g]
    /\ calls' = calls + 1
    /\ UNCHANGED <<obj, lamdiff, delta, maf, qdf, mals, gr, ld, err>>

\* LinearProjection(in_dim, out_dim, bias); w and b are the decoder's
\* parameters (no bias parameter stands as b = 0)
LP_new ==
    /\ obj = "none"
    /\ \E bias \in BOOLEAN, w \in LD_WVals, b \in LD_BVals :
        /\ bias \/ b = 0
        /\ ld' = [bias |-> bias, w |-> w, b |-> b, reversal |-> "None"]
        /\ call' = [op |-> "LP.__init__", bias |-> bias]
    /\ obj' = "LP"
    /\ UNCHANGED <<lamdiff, delta, calls, maf, qdf, mals, gr, ret, err>>

\* LinearProjection.forward(z)
LP_forward ==
    /\ obj = "LP"
    /\ calls < MaxCalls
    /\ \E zb \in LD_ZBatches :
        /\ ret' = LD_forward_out(ld, zb)
        /\ call' = [op |-> "LP.forward", z |-> zb]
    /\ err' = ""
    /\ calls' = calls + 1
    /\ UNCHANGED <<obj, lamdiff, delta, maf, qdf, mals, gr, ld>>

\* LinearDisentangle(in_dim, out_dim, bias, reversal, alpha, do_detach, n_models)
LD_new ==
    /\ obj = "none"
    /\ \E bias \in BOOLEAN, w \in LD_WVals, b \in LD_BVals,
          reversal \in LD_ReversalArgs, n_models \in LD_NModels :
        /\ bias \/ b = 0
        /\ ld' = [bias |-> bias, w |-> w, b |-> b,
                  reversal |-> LD_reversal(reversal, n_models)]
        /\ call' = [op |-> "LD.__init__", bias |-> bias, reversal |-> reversal,
                    n_models |-> n_models]
    /\ obj' = "LD"
    /\ err' = ""
    /\ UNCHANGED <<lamdiff, delta, calls, maf, qdf, mals, gr, ret>>

\* LinearDisentangle.forward(z)
LD_forward ==
    /\ obj = "LD"
    /\ calls < MaxCalls
    /\ \E zb \in LD_ZBatches :
        /\ err' = LD_forward_err(ld)
        /\ ret' = IF LD_forward_err(ld) = "" THEN LD_forward_out(ld, zb) ELSE <<>>
        /\ call' = [op |-> "LD.forward", z |-> zb]
    /\ calls' = calls + 1
    /\ UNCHANGED <<obj, lamdiff, delta, maf, qdf, mals, gr, ld>>

Next ==
    \/ MAF_new
    \/ MAF_evaluate_loss
    \/ MAF_update
    \/ QDF_new
    \/ QDF_update
    \/ QDF_evaluate_loss
    \/ MALS_new
    \/ MALS_expand
    \/ MALS_forward
    \/ MALS_update
    \/ MALS_evaluate_loss
    \/ GR_forward
    \/ GR_backward
    \/ LP_new
    \/ LP_forward
    \/ LD_new
    \/ LD_forward

Spec == Init /\ [][Next]_vars

(***************************************************************************)
(* Claims                                                                  *)
(***************************************************************************)

\* C1: in every tracker and for every class, after construction and after
\* every call, the slow forgetting factor minus the fast one equals lamdiff.
C1_GapInvariant ==
    /\ obj = "MAF" => \A i \in ClassIdx : maf.lam2[i] - maf.lam1[i] = lamdiff
    /\ obj = "QDF" => \A i \in ClassIdx : qdf.lam[i]["b"] - qdf.lam[i]["a"] = lamdiff
    /\ obj = "MALS" => mals.lam1 - mals.lam0 = lamdiff

\* a MovingAverageFilter step in which the clip at 1.0 cut the slow factor
C1_Witness ==
    /\ obj = "MAF"
    /\ call.op = "MAF.evaluate_loss"
    /\ \E i \in ClassIdx :
        /\ maf.lam2[i] = LamOne
        /\ maf.lam1[i] = LamOne - lamdiff
        /\ maf.lam1[i] # MAF_LAM_INIT + delta

\* C2: both forgetting factors of every pair lie within [0, 1] after
\* construction and after any number of adaptation steps.
C2_FactorsInUnitInterval ==
    /\ obj = "MAF" => \A i \in ClassIdx :
            maf.lam1[i] \in 0 .. LamOne /\ maf.lam2[i] \in 0 .. LamOne
    /\ obj = "QDF" => \A i \in ClassIdx : \A cl \in QDF_Copies :
            qdf.lam[i][cl] \in 0 .. LamOne
    /\ obj = "MALS" => mals.lam0 \in 0 .. LamOne /\ mals.lam1 \in 0 .. LamOne

FastBranch(fast, slow, fast2, slow2) ==
    /\ fast2 = Clip(fast - delta, 0, LamOne)
    /\ slow2 = fast2 + lamdiff

SlowBranch(fast, slow, fast2, slow2) ==
    /\ slow2 = Clip(slow + delta, 0, LamOne)
    /\ fast2 = slow2 - lamdiff

C3_MAF_Step ==
    call'.op = "MAF.evaluate_loss" =>
        \A i \in ClassIdx : \A xbar \in {MAF_xbar(call'.batch, Classes[i])} :
            \A d1 \in {DistSq(xbar, maf.m1[i])}, d2 \in {DistSq(xbar, maf.m2[i])} :
                /\ RLt(d1, d2) =>
                      FastBranch(maf.lam1[i], maf.lam2[i], maf'.lam1[i], maf'.lam2[i])
                /\ RLt(d2, d1) =>
                      SlowBranch(maf.lam1[i], maf.lam2[i], maf'.lam1[i], maf'.lam2[i])

C3_QDF_Step ==
    (call'.op = "QDF.evaluate_loss" /\ call'.update /\ err' = "") =>
        \A i \in ClassIdx :
            \A lla \in {QDF_ll(qdf, i, "a", call'.batch)},
               llb \in {QDF_ll(qdf, i, "b", call'.batch)} :
                /\ LLGreater(lla, llb) = "yes" =>
                      FastBranch(qdf.lam[i]["a"], qdf.lam[i]["b"],
                                 qdf'.lam[i]["a"], qdf'.lam[i]["b"])
                /\ LLGreater(llb, lla) = "yes" =>
                      SlowBranch(qdf.lam[i]["a"], qdf.lam[i]["b"],
                                 qdf'.lam[i]["a"], qdf'.lam[i]["b"])

C3_MALS_Step ==
    call'.op = "MALS.evaluate_loss" =>
        LET l0 == MALS_sse(call'.args.y, call'.args.yhat0)
            l1 == MALS_sse(call'.args.y, call'.args.yhat1)
        IN  /\ RLt(l0, l1) => FastBranch(mals.lam0, mals.lam1, mals'.lam0, mals'.lam1)
            /\ RLt(l1, l0) => SlowBranch(mals.lam0, mals.lam1, mals'.lam0, mals'.lam1)

C6_MAF_Step ==
    (obj = "MAF" /\ call'.op = "MAF.evaluate_loss" /\ calls' = calls + 1) =>
        /\ err' = ""
        /\ \A i \in ClassIdx : RowsOf(call'.batch, Classes[i]) = {} =>
            /\ maf'.m1[i] = maf.m1[i]
            /\ maf'.m2[i] = maf.m2[i]
            /\ maf'.lam1[i] = maf.lam1[i]
            /\ maf'.lam2[i] = maf.lam2[i]
        /\ (\A i \in ClassIdx : \A j \in MAF_Dims :
                ~IsNaN(maf.m1[i][j]) /\ ~IsNaN(maf.m2[i][j])) =>
            /\ \A i \in ClassIdx : \A j \in MAF_Dims :
                    ~IsNaN(maf'.m1[i][j]) /\ ~IsNaN(maf'.m2[i][j])
            /\ ~IsNaN(ret')

C6_QDF_Step ==
    (obj = "QDF" /\ call'.op \in {"QDF.update", "QDF.evaluate_loss"}
        /\ calls' = calls + 1) =>
        \A i \in ClassIdx : RowsOf(call'.batch, Classes[i]) = {} =>
            /\ err' = ""
            /\ qdf'.acc[i] = qdf.acc[i]
            /\ qdf'.lam[i] = qdf.lam[i]
            /\ \A cl \in QDF_Copies : \A par \in QDF_Pars :
                ~IsNaN(qdf.acc[i][cl][par]) => ~IsNaN(qdf'.acc[i][cl][par])

\* C6: when a batch holds no example of a tracked class,
\* MovingAverageFilter.evaluate_loss and QuadraticDiscriminantFilter.update
\* and evaluate_loss raise no error, leave that class's accumulators and
\* forgetting factors as they were, and neither store NaN in an accumulator
\* nor return it in the loss.
C6_EmptyClassIsNoOp == [][C6_MAF_Step /\ C6_QDF_Step]_vars

\* w @ z for a row z of rationals
LD_apply_weight(w, z) == RSum([j \in DOMAIN w |-> RMul(R(w[j]), z[j])])

\* C7: for every batch z and every decoder weight W with W W^T invertible,
\* every row of the null-space latent returned by LinearDisentangle.forward
\* and LinearProjection.forward satisfies W . z_null = 0, whatever the batch
\* size and whether or not the decoder has a bias.
C7_NullLatentInKernel ==
    (obj \in {"LP", "LD"} /\ call.op \in {"LP.forward", "LD.forward"} /\ err = "") =>
        \A k \in DOMAIN ret.z_null : LD_apply_weight(ld.w, ret.z_null[k]) = R(0)

\* C8 (as the code has it): GradientReversal's forward pass returns x
\* unchanged for every x and alpha; the backward pass with upstream gradient
\* g returns no gradient for alpha, and for x it returns -alpha * g when x
\* requires a gradient and no gradient when it does not.
C8_ReversedGradientWhenNeeded ==
    /\ (obj = "GR" /\ call.op = "GR.forward") => ret = call.x
    /\ (obj = "GR" /\ call.op = "GR.backward") =>
        /\ ret[2] = NoGrad
        /\ ret[1] = IF gr.needs[1]
                    THEN [none |-> FALSE, val |-> (0 - gr.alpha) * call.grad_output]
                    ELSE NoGrad

\* a backward pass with alpha = 2 and upstream gradient 1 for an x that
\* requires a gradient: the gradient handed back is -2
C8_Witness ==
    /\ obj = "GR"
    /\ call.op = "GR.backward"
    /\ gr.needs[1]
    /\ gr.alpha = 2
    /\ call.grad_output = 1
    /\ ret = <<Grad(0 - 2), NoGrad>>

\* C8 as stated: the forward pass returns x unchanged; the backward pass
\* with upstream gradient g returns -alpha * g as the gradient with respect
\* to x and None with respect to alpha.
C8_ReversedGradientAlways ==
    /\ (obj = "GR" /\ call.op = "GR.forward") => ret = call.x
    /\ (obj = "GR" /\ call.op = "GR.backward") =>
        ret = <<[none |-> FALSE, val |-> (0 - gr.alpha) * call.grad_output], NoGrad>>

\* C9: MovingAverageFilter.evaluate_loss returns exactly zero whenever the
\* mean estimates of all classes are the same vector and a strictly positive
\* value whenever the mean estimates of two classes differ.
C9_LossIsBetweenClassSpread ==
    (obj = "MAF" /\ call.op = "MAF.evaluate_loss"
        /\ \A i \in ClassIdx : \A j \in MAF_Dims : ~IsNaN(MAF_mean_estimate(maf)[i][j])) =>
        IF \A i, k \in ClassIdx : MAF_mean_estimate(maf)[i] = MAF_mean_estimate(maf)[k]
        THEN ret = R(0)
        ELSE RLt(R(0), ret)

LD_KnownReversals == {"linear", "mlp", "ensemble"}

\* C10 (as the code has it): constructing LinearDisentangle with a reversal
\* type that is none of "linear", "mlp", "ensemble" raises nothing and gives
\* a module whose reversal branch is None; its forward returns no "gr" entry.
C10_UnknownReversalDisablesBranch ==
    /\ (call.op = "LD.__init__" /\ call.reversal \notin LD_KnownReversals) =>
        obj = "LD" /\ err = "" /\ ld.reversal = "None"
    /\ (obj = "LD" /\ call.op = "LD.forward" /\ ld.reversal = "None") =>
        err = "" /\ ~ret.gr

\* the forward pass of a module built with reversal = "lienar"
C10_Witness ==
    /\ obj = "LD"
    /\ call.op = "LD.forward"
    /\ ld.reversal = "None"
    /\ err = ""
    /\ ~ret.gr

\* C10 as stated: constructing LinearDisentangle with a reversal type that is
\* none of "linear", "mlp", "ensemble" raises an error at construction time
\* instead of producing a module.
C10_UnknownReversalRaises ==
    (call.op = "LD.__init__" /\ call.reversal \notin LD_KnownReversals) =>
        err # "" /\ obj # "LD"

\* C11: constructing MovingAvgLeastSquares with a polynomial_order that is
\* 0 or negative raises an error at construction time instead of creating
\* accumulators.
C11_NonPositiveOrderRaises ==
    (call.op = "MALS.__init__" /\ call.config.order <= 0) =>
        err # "" /\ obj # "MALS"

\* C12: construction of each tracker succeeds and yields the neutral state:
\* every mean accumulator zero, every covariance or X^T X accumulator the
\* identity, and for every class the fast forgetting factor at 0.5 with the
\* slow one at 0.5 + lamdiff.
C12_ConstructionIsNeutral ==
    /\ call.op = "MAF.__init__" =>
        /\ err = "" /\ obj = "MAF"
        /\ \A i \in ClassIdx :
            /\ \A j \in MAF_Dims : maf.m1[i][j] = R(0) /\ maf.m2[i][j] = R(0)
            /\ 2 * maf.lam1[i] = LamOne
            /\ maf.lam2[i] = maf.lam1[i] + lamdiff
    /\ call.op = "QDF.__init__" =>
        /\ err = "" /\ obj = "QDF"
        /\ \A i \in ClassIdx :
            /\ \A cl \in QDF_Copies :
                /\ qdf.acc[i][cl]["m0"] = R(0) /\ qdf.acc[i][cl]["m1"] = R(0)
                /\ qdf.acc[i][cl]["S0"] = R(1) /\ qdf.acc[i][cl]["S1"] = R(1)
            /\ 2 * qdf.lam[i]["a"] = LamOne
            /\ qdf.lam[i]["b"] = qdf.lam[i]["a"] + lamdiff
    /\ call.op = "MALS.__init__" =>
        /\ err = "" /\ obj = "MALS"
        /\ mals.Sxx0 = R(1) /\ mals.Sxx1 = R(1)
        /\ mals.Sxy0 = R(0) /\ mals.Sxy1 = R(0)
        /\ 2 * mals.lam0 = LamOne
        /\ mals.lam1 = mals.lam0 + lamdiff

\* C13: a call to QuadraticDiscriminantFilter.evaluate_loss with
\* update=False leaves every forgetting factor and every accumulator of
\* every class unchanged, for any batch, and returns (or raises) what the
\* call with update=True returns (or raises) on the same state.
C13_NoAdaptationWithoutUpdate ==
    [][(obj = "QDF" /\ call'.op = "QDF.evaluate_loss" /\ calls' = calls + 1
            /\ ~call'.update) =>
        /\ qdf' = qdf
        /\ \A tie \in [ClassIdx -> BOOLEAN] :
            \A live \in {QDF_eval_loop(qdf, 1, call'.batch, TRUE, tie)} :
                /\ err' = live.err
                /\ live.err = "" => ret' = QDF_loss(live.st, call'.batch)]_vars

\* a call with update=False on a filter that an update has moved away from
\* its initial accumulators: the loss is not zero and the factors are those
\* of the constructor, which a live step would have moved
C13_Witness ==
    /\ obj = "QDF"
    /\ call.op = "QDF.evaluate_loss"
    /\ ~call.update
    /\ err = ""
    /\ calls = 2
    /\ qdf.lam = QDF_init(lamdiff, delta).lam
    /\ qdf.acc # QDF_init(lamdiff, delta).acc
    /\ ~LLIsNaN(ret.of)
    /\ ret.of # LLZero
    /\ QDF_eval_loop(qdf, 1, call.batch, TRUE, [i \in ClassIdx |-> FALSE]).st.lam # qdf.lam

\* C14: in every tracker evaluate_loss changes at most the forgetting
\* factors and leaves all accumulators (means, covariances, cross-moment
\* matrices) as they were; only the update call changes them.
C14_EvaluateLossKeepsAccumulators ==
    [][/\ (obj = "MAF" /\ call'.op = "MAF.evaluate_loss" /\ calls' = calls + 1) =>
            maf'.m1 = maf.m1 /\ maf'.m2 = maf.m2
       /\ (obj = "QDF" /\ call'.op = "QDF.evaluate_loss" /\ calls' = calls + 1) =>
            qdf'.acc = qdf.acc
       /\ (obj = "MALS" /\ call'.op = "MALS.evaluate_loss" /\ calls' = calls + 1) =>
            /\ mals'.Sxx0 = mals.Sxx0 /\ mals'.Sxy0 = mals.Sxy0
            /\ mals'.Sxx1 = mals.Sxx1 /\ mals'.Sxy1 = mals.Sxy1]_vars

\* the distance of a solved weight W from the slope A
C15_Error(A, W) == IF RLt(W, R(A)) THEN RSub(R(A), W) ELSE RSub(W, R(A))

\* one regressor across an update whose batch lies on y = A x with x # 0
C15_Closer(A, Sxx, Sxy, Sxx2, Sxy2) ==
    (~IsNaN(Sxx) /\ ~IsNaN(Sxy) /\ RLt(R(0), Sxx)) =>
        LET W  == RDiv(Sxy, Sxx)
            W2 == RDiv(Sxy2, Sxx2)
        IN  /\ ~IsNaN(W2)
            /\ W = R(A) => W2 = R(A)
            /\ W # R(A) => RLt(C15_Error(A, W2), C15_Error(A, W))

\* the slopes A for which the rows of MALS_Batches satisfy y = A x
C15_Slopes == 0 .. 2

C16_SxxStaysInvertible ==
    (obj = "MALS" /\ MALS_scalar(mals)) =>
        /\ mals.Sxx0 # R(0) /\ mals.Sxx1 # R(0)
        /\ call.op = "MALS.forward" => err = ""

RECURSIVE C17_Choose(_, _)
\* the binomial coefficient C(n, k), by Pascal's rule
C17_Choose(n, k) ==
    IF k = 0 THEN 1
    ELSE IF n = 0 THEN 0
    ELSE C17_Choose(n - 1, k - 1) + C17_Choose(n - 1, k)

RECURSIVE C17_Columns(_, _)
\* the sum over d = 1 .. p of C(nx + d - 1, d)
C17_Columns(nx, p) ==
    IF p < 1 THEN 0 ELSE C17_Columns(nx, p - 1) + C17_Choose(nx + p - 1, p)

\* the combinations with replacement of d of the nx base dimensions, as
\* non-decreasing index tuples
C17_Multisets(nx, d) ==
    {t \in [1 .. d -> 1 .. nx] : \A k \in 1 .. (d - 1) : t[k] <= t[k + 1]}

\* t comes before u in lexicographic order
C17_Before(t, u) ==
    \E k \in DOMAIN t : t[k] < u[k] /\ \A j \in 1 .. (k - 1) : t[j] = u[j]

RECURSIVE C17_Product(_, _, _)
\* x[t[1]] * ... * x[t[k]]
C17_Product(x, t, k) == IF k = 0 THEN 1 ELSE x[t[k]] * C17_Product(x, t, k - 1)

RECURSIVE C18_RProd(_)
\* the product of a sequence of rationals
C18_RProd(s) == IF s = <<>> THEN R(1) ELSE RMul(Head(s), C18_RProd(Tail(s)))

\* (class index, copy, row) for n in 1 .. 2 * Len(Classes) * Len(b)
C18_Term(b, n) ==
    [i  |-> ((n - 1) \div (2 * Len(b))) + 1,
     cl |-> IF ((n - 1) \div Len(b)) % 2 = 0 THEN "a" ELSE "b",
     k  |-> ((n - 1) % Len(b)) + 1]

\* the sign of row k for class i: +1 in the class, -1 otherwise
C18_InClass(b, t) == b[t.k].y = Classes[t.i]

\* (x - m)^2 / S
C18_Mahalanobis(x, m, S) == RDiv(RSq(RSub(R(x), m)), S)

\* C18: QuadraticDiscriminantFilter.evaluate_loss returns, for the Gaussian
\* log-likelihood -0.5 * (ln S + (x - m)^2 / S), the signed sum over classes,
\* copies a and b and samples (+1 for a sample in the class, -1 otherwise) of
\* (log-likelihood under the in-class Gaussian minus log-likelihood under
\* the not-in-class Gaussian), times 1/2 for the two copies and divided by
\* the number of classes; it is computed from the accumulators alone,
\* whichever copy won the adaptation step.
C18_LossIsMeanLogLikelihoodRatio ==
    (obj = "QDF" /\ call.op = "QDF.evaluate_loss" /\ err = "") =>
        LET b == call.batch
            N == 2 * Len(Classes) * Len(b)
            acc(n) == qdf.acc[C18_Term(b, n).i][C18_Term(b, n).cl]
            x(n) == b[C18_Term(b, n).k].x
            ratio(n) == RDiv(acc(n)["S1"], acc(n)["S0"])
            maha(n) == RSub(C18_Mahalanobis(x(n), acc(n)["m1"], acc(n)["S1"]),
                            C18_Mahalanobis(x(n), acc(n)["m0"], acc(n)["S0"]))
            P == C18_RProd([n \in 1 .. N |->
                    IF C18_InClass(b, C18_Term(b, n)) THEN ratio(n)
                    ELSE RDiv(R(1), ratio(n))])
            Q == RSum([n \in 1 .. N |->
                    IF C18_InClass(b, C18_Term(b, n)) THEN maha(n)
                    ELSE RNeg(maha(n))])
        IN  /\ ret.scale = RMul(Rat(1, 2), Rat(1, Len(Classes)))
            /\ ret.of = LL(P, Q)

\* a live call after an update on a batch holding both classes: the loss is
\* a number other than zero and the factors have moved
C18_Witness ==
    /\ obj = "QDF"
    /\ call.op = "QDF.evaluate_loss"
    /\ call.update
    /\ err = ""
    /\ ~LLIsNaN(ret.of)
    /\ ret.of.p # R(1)
    /\ ret.of.r # R(0)
    /\ qdf.lam # QDF_init(lamdiff, delta).lam

\* for each class and copy the in-class mean and covariance are numbers
\* equal to the not-in-class ones
C19_SameStatistics(st) ==
    \A i \in ClassIdx : \A cl \in QDF_Copies :
        /\ \A par \in QDF_Pars : ~IsNaN(st.acc[i][cl][par])
        /\ st.acc[i][cl]["m1"] = st.acc[i][cl]["m0"]
        /\ st.acc[i][cl]["S1"] = st.acc[i][cl]["S0"]

\* what evaluate_loss(x, y, update=False) does in state st on batch b
C19_Outcome(st, b) ==
    LET out == QDF_eval_loop(st, 1, b, FALSE, [i \in ClassIdx |-> FALSE])
    IN  [err |-> out.err,
         ret |-> IF out.err = "" THEN QDF_loss(st, b) ELSE <<>>]

C20_NoStrictOrder(a, b) == IsNaN(a) \/ IsNaN(b) \/ a = b

C20_MAF_Step ==
    (obj = "MAF" /\ call'.op = "MAF.evaluate_loss" /\ calls' = calls + 1) =>
        \A i \in ClassIdx : \A xbar \in {MAF_xbar(call'.batch, Classes[i])} :
            C20_NoStrictOrder(DistSq(xbar, maf.m1[i]), DistSq(xbar, maf.m2[i])) =>
                SlowBranch(maf.lam1[i], maf.lam2[i], maf'.lam1[i], maf'.lam2[i])

C20_QDF_Step ==
    (obj = "QDF" /\ call'.op = "QDF.evaluate_loss" /\ calls' = calls + 1
        /\ call'.update /\ err' = "") =>
        \A i \in ClassIdx :
            \A lla \in {QDF_ll(qdf, i, "a", call'.batch)},
               llb \in {QDF_ll(qdf, i, "b", call'.batch)} :
                (LLIsNaN(lla) \/ LLIsNaN(llb) \/ lla = llb) =>
                    SlowBranch(qdf.lam[i]["a"], qdf.lam[i]["b"],
                               qdf'.lam[i]["a"], qdf'.lam[i]["b"])

C20_MALS_Step ==
    (obj = "MALS" /\ call'.op = "MALS.evaluate_loss" /\ calls' = calls + 1) =>
        (C20_NoStrictOrder(MALS_sse(call'.args.y, call'.args.yhat0),
                           MALS_sse(call'.args.y, call'.args.yhat1)) =>
            SlowBranch(mals.lam0, mals.lam1, mals'.lam0, mals'.lam1))

\* C20: when the fast and the slow estimator score exactly equally on a
\* batch, or their scores are not comparable, every tracker takes the
\* slow-wins branch: lam_slow is increased by delta (clipped to 1) and
\* lam_fast is set to lam_slow - lamdiff.
C20_TiesGoToSlowBranch == [][C20_MAF_Step /\ C20_QDF_Step /\ C20_MALS_Step]_vars

\* the first MovingAvgLeastSquares.evaluate_loss after construction, given
\* the predictions of two zero maps: the factors are those of the slow
\* branch, above what the fast branch would have left
C20_Witness ==
    /\ obj = "MALS"
    /\ call.op = "MALS.evaluate_loss"
    /\ calls = 1
    /\ call.args.yhat0 = 0 /\ call.args.yhat1 = 0
    /\ mals.lam1 = Clip(MALS_LAM_INIT + lamdiff + delta, 0, LamOne)
    /\ mals.lam0 = mals.lam1 - lamdiff
    /\ mals.lam0 > Clip(MALS_LAM_INIT - delta, 0, LamOne)

\* the pair (fast, slow) after a step won by the fast copy (fast_won) or by
\* the slow one: both factors moved by the same amount, by delta towards the
\* winner unless the clip cut the moved factor, and not at all only at the
\* winner's boundary
C21_PairMoved(fast, slow, fast2, slow2, fast_won) ==
    /\ fast2 - fast = slow2 - slow
    /\ (fast_won /\ fast - delta \in 0 .. LamOne) => fast2 - fast = 0 - delta
    /\ (~fast_won /\ slow + delta \in 0 .. LamOne) => slow2 - slow = delta
    /\ (fast2 = fast /\ slow2 = slow) =>
          \/ fast_won /\ fast = 0
          \/ ~fast_won /\ slow = LamOne

C21_MAF_Step ==
    call'.op = "MAF.evaluate_loss" =>
        \A i \in ClassIdx : \A xbar \in {MAF_xbar(call'.batch, Classes[i])} :
            C21_PairMoved(maf.lam1[i], maf.lam2[i], maf'.lam1[i], maf'.lam2[i],
                          MAF_fast_wins(maf, i, xbar))

C21_QDF_Step ==
    (call'.op = "QDF.evaluate_loss" /\ call'.update /\ err' = "") =>
        \A i \in ClassIdx :
            C21_PairMoved(qdf.lam[i]["a"], qdf.lam[i]["b"],
                          qdf'.lam[i]["a"], qdf'.lam[i]["b"],
                          QDF_a_wins(qdf, i, call'.batch, call'.tie[i]))

C21_MALS_Step ==
    call'.op = "MALS.evaluate_loss" =>
        C21_PairMoved(mals.lam0, mals.lam1, mals'.lam0, mals'.lam1,
                      MALS_fast_wins(call'.args))

\* the steps of C21 taken alone: every live adaptation step moves the pair
\* as C21_PairMoved says
C21_StepMovesPair == [][C21_MAF_Step /\ C21_QDF_Step /\ C21_MALS_Step]_vars

\* C21: every live adaptation step moves both forgetting factors of a pair
\* by the same amount, of magnitude delta unless the clip is active, and
\* leaves the pair unchanged only at a boundary; hence in every reachable
\* state lam_fast is in [0, 1 - lamdiff] and lam_slow is in [lamdiff, 1].
C21_FactorsInReducedRange ==
    /\ obj = "MAF" => \A i \in ClassIdx :
            /\ maf.lam1[i] \in 0 .. (LamOne - lamdiff)
            /\ maf.lam2[i] \in lamdiff .. LamOne
    /\ obj = "QDF" => \A i \in ClassIdx :
            /\ qdf.lam[i]["a"] \in 0 .. (LamOne - lamdiff)
            /\ qdf.lam[i]["b"] \in lamdiff .. LamOne
    /\ obj = "MALS" =>
            /\ mals.lam0 \in 0 .. (LamOne - lamdiff)
            /\ mals.lam1 \in lamdiff .. LamOne

C22_QDF_Step ==
    call'.op = "QDF.update" => qdf'.lam = qdf.lam

C22_MALS_Step ==
    /\ call'.op = "MALS.update" =>
          mals'.lam0 = mals.lam0 /\ mals'.lam1 = mals.lam1
    /\ call'.op = "MALS.forward" => mals' = mals

C22_MAF_Step ==
    call'.op = "MAF.update" =>
        /\ maf'.m1 = maf.m1 /\ maf'.m2 = maf.m2
        /\ maf'.lam1 = maf.lam1 /\ maf'.lam2 = maf.lam2

\* C22: QuadraticDiscriminantFilter.update and MovingAvgLeastSquares.update
\* leave every forgetting factor as it was, MovingAverageFilter.update leaves
\* the values of m1, m2, lam1 and lam2 as they were, and
\* MovingAvgLeastSquares.forward leaves all accumulators and forgetting
\* factors as they were.
C22_UpdateAndForwardKeepFactors ==
    [][C22_QDF_Step /\ C22_MALS_Step /\ C22_MAF_Step]_vars

\* a QuadraticDiscriminantFilter.update that rewrote the statistics of a
\* tracker whose forgetting factors an earlier live step had moved
C22_Witness ==
    /\ obj = "QDF"
    /\ call.op = "QDF.update"
    /\ \E i \in ClassIdx :
        /\ qdf.lam[i]["a"] # QDF_LAM_INIT
        /\ qdf.acc[i] # QDF_init(lamdiff, delta).acc[i]

====
